---- MODULE Spec2Model ----
(***************************************************************************)
(* Model of the command handler, the sensor mapping and the tone sequencer *)
(* of src/firmware/common_firmware/src/main.cpp (ESP32 servo firmware).    *)
(*                                                                         *)
(* Text is a sequence of one-character strings; C indices are 0-based, so  *)
(* the character at C index i of a text s is s[i + 1].                     *)
(*                                                                         *)
(* The WebSocket handler and loop() are each one atomic action.  Left out  *)
(* are the parts of loop() that write none of the modelled state (heap     *)
(* logging, the pin writes derived from currentAngles and ledStates) and   *)
(* the HTTP routes.                                                        *)
(***************************************************************************)
EXTENDS Integers, Sequences, FiniteSets, TLC

\* ------------------------------------------------------------------------
\* Program constants
\* ------------------------------------------------------------------------
NUM_SERVOS == 6
NUM_POTIS == 4
NUM_TOUCH == 3
NUM_LEDS == 3
NUM_SCHALTER == 1
SEND_INTERVAL == 50
MAX_MSG == 128
MAX_SOUND == 256
PERSIST_DELAY == 1000
LOOP_DELAY == 10
TOUCH_THRESHOLD == 40
ANALOG_MAX == 4095
SERVO_MAX == 180
SERVO_INIT == 90
DUTY_MAX == 255
VOL_MAX == 100
LOW == 0
HIGH == 1
\* the float filter is held in hundredths: FILTER_ONE is 1.0f, FILTER_INIT 0.9
FILTER_ONE == 100
FILTER_INIT == 90
\* currentAngles is held in hundredths of a degree
ANGLE_SCALE == 100
BUZZER_INIT_FREQ == 1000

\* ------------------------------------------------------------------------
\* C strings and the Arduino String operations the firmware uses
\* ------------------------------------------------------------------------
NUL == "\\0"

Digits == {"0", "1", "2", "3", "4", "5", "6", "7", "8", "9"}

DigitVal(c) ==
  CASE c = "0" -> 0 [] c = "1" -> 1 [] c = "2" -> 2 [] c = "3" -> 3
    [] c = "4" -> 4 [] c = "5" -> 5 [] c = "6" -> 6 [] c = "7" -> 7
    [] c = "8" -> 8 [] c = "9" -> 9

\* the least element of a non-empty set of integers
Least(S) == CHOOSE i \in S : \A j \in S : i <= j

\* the text of a NUL-terminated buffer: everything before the first NUL
CStr(buf) ==
  LET nuls == {i \in 1 .. Len(buf) : buf[i] = NUL}
  IN IF nuls = {} THEN buf ELSE SubSeq(buf, 1, Least(nuls) - 1)

\* buf + n: the buffer from C index n on
Drop(buf, n) == SubSeq(buf, n + 1, Len(buf))

\* strncmp(buf, lit, Len(lit)) == 0 for a literal without NUL
StrNCmpEq(buf, lit) ==
  Len(buf) >= Len(lit) /\ SubSeq(buf, 1, Len(lit)) = lit

\* mutant of StrCmpEq: only the length of the literal is compared
StrCmpEq_Prefix(buf, lit) ==
  Len(buf) >= Len(lit) /\ SubSeq(buf, 1, Len(lit)) = lit

\* strcmp(buf, lit) == 0
StrCmpEq(buf, lit) == CStr(buf) = lit

\* String::indexOf(ch, fromIndex): C index of the first ch at or after
\* fromIndex, -1 if there is none
IndexOf(s, ch, from) ==
  LET hits == {i \in from .. (Len(s) - 1) : s[i + 1] = ch}
  IN IF hits = {} THEN -1 ELSE Least(hits)

\* String::substring(left, right): the characters at C indices [left, right).
\* The parameters are unsigned: a negative int argument arrives as a value
\* beyond every length, for which Len(s) + 1 stands.
Substring(s, left, right) ==
  LET a == IF left < 0 THEN Len(s) + 1 ELSE left
      b == IF right < 0 THEN Len(s) + 1 ELSE right
      l == IF a > b THEN b ELSE a
      r0 == IF a > b THEN a ELSE b
      r == IF r0 > Len(s) THEN Len(s) ELSE r0
  IN IF l >= Len(s) THEN << >> ELSE SubSeq(s, l + 1, r)

\* C integer division truncates toward zero
CDiv(a, b) ==
  IF (a >= 0) = (b > 0) THEN (IF a >= 0 THEN a ELSE -a) \div (IF b > 0 THEN b ELSE -b)
  ELSE -((IF a >= 0 THEN a ELSE -a) \div (IF b > 0 THEN b ELSE -b))

\* the C index of the first character of s at or after i that is not in set
\* cs (Len(s) when there is none)
SkipWhile(s, i, cs) ==
  Least({j \in i .. Len(s) : j = Len(s) \/ s[j + 1] \notin cs})

\* the C index after the blanks of s from C index i
SkipSpace(s, i) == SkipWhile(s, i, {" "})

\* the value of a text of decimal digits
RECURSIVE DigitsVal(_)
DigitsVal(ds) ==
  IF ds = << >> THEN 0
  ELSE 10 * DigitsVal(SubSeq(ds, 1, Len(ds) - 1)) + DigitVal(ds[Len(ds)])

\* the run of decimal digits of s from C index i: <<value, index after it>>
ScanDigits(s, i, acc) ==
  LET e == SkipWhile(s, i, Digits)
  IN << DigitsVal(SubSeq(s, i + 1, e)), e >>

\* one %d conversion (also atol) at C index i: blanks, an optional sign, then
\* at least one digit.  ok is FALSE on a matching failure.
ScanInt(s, i) ==
  LET j == SkipSpace(s, i)
      neg == j < Len(s) /\ s[j + 1] = "-"
      k == IF j < Len(s) /\ s[j + 1] \in {"-", "+"} THEN j + 1 ELSE j
      d == ScanDigits(s, k, 0)
  IN [ok |-> d[2] > k, val |-> IF neg THEN -d[1] ELSE d[1], next |-> d[2]]

\* String::toInt(): atol of the text, 0 when no number starts it
ToInt(s) == LET r == ScanInt(CStr(s), 0) IN IF r.ok THEN r.val ELSE 0

\* Arduino map(): (x - in_min) * (out_max - out_min) / (in_max - in_min) + out_min
Map(x, in_min, in_max, out_min, out_max) ==
  CDiv((x - in_min) * (out_max - out_min), in_max - in_min) + out_min

\* Arduino constrain()
Constrain(amt, low, high) ==
  IF amt < low THEN low ELSE IF amt > high THEN high ELSE amt

\* sscanf(s, "%d:%d", &idx, &val) with idx = -1 and val = 0 beforehand:
\* n is the number of conversions assigned (0 also stands for EOF)
ScanIntColonInt(s) ==
  LET a == ScanInt(s, 0)
      colon == a.ok /\ a.next < Len(s) /\ s[a.next + 1] = ":"
      b == ScanInt(s, a.next + 1)
  IN IF ~a.ok THEN [n |-> 0, idx |-> -1, val |-> 0]
     ELSE IF colon /\ b.ok THEN [n |-> 2, idx |-> a.val, val |-> b.val]
     ELSE [n |-> 1, idx |-> a.val, val |-> 0]

\* sscanf(s, "%f", &f): blanks, an optional sign, digits with an optional
\* fraction.  The value is in hundredths (FILTER_ONE is 1.0); the texts the
\* model feeds it carry at most two fraction digits, so nothing is rounded.
ScanFloat(s) ==
  LET j == SkipSpace(s, 0)
      neg == j < Len(s) /\ s[j + 1] = "-"
      k == IF j < Len(s) /\ s[j + 1] \in {"-", "+"} THEN j + 1 ELSE j
      ip == ScanDigits(s, k, 0)
      dot == ip[2] < Len(s) /\ s[ip[2] + 1] = "."
      fp == IF dot THEN ScanDigits(s, ip[2] + 1, 0) ELSE << 0, ip[2] >>
      nfrac == IF dot THEN fp[2] - (ip[2] + 1) ELSE 0
      frac == IF nfrac = 0 THEN 0
              ELSE IF nfrac = 1 THEN 10 * fp[1]
              ELSE fp[1]
      mag == FILTER_ONE * ip[1] + frac
  IN [ok |-> (ip[2] > k) \/ (dot /\ nfrac > 0),
      val |-> IF neg THEN -mag ELSE mag]

\* String(int): the decimal text of an integer
RECURSIVE DecDigits(_)
DecDigits(n) ==
  LET d == << "0", "1", "2", "3", "4", "5", "6", "7", "8", "9" >>[(n % 10) + 1]
  IN IF n < 10 THEN << d >> ELSE Append(DecDigits(n \div 10), d)

IntToStr(n) == IF n < 0 THEN << "-" >> \o DecDigits(-n) ELSE DecDigits(n)

\* ------------------------------------------------------------------------
\* Text literals of the protocol
\* ------------------------------------------------------------------------
KW_POTI_ON == << "p", "o", "t", "i", ":", "o", "n" >>
KW_POTI_OFF == << "p", "o", "t", "i", ":", "o", "f", "f" >>
KW_FILTER == << "f", "i", "l", "t", "e", "r", ":" >>
KW_SERVO == << "s", "e", "r", "v", "o", ":" >>
KW_LED == << "l", "e", "d", ":" >>
KW_SOUND == << "s", "o", "u", "n", "d", ":" >>

N_POTI == << "p", "o", "t", "i" >>
N_TOUCH == << "t", "o", "u", "c", "h" >>
N_SCHALTER == << "s", "c", "h", "a", "l", "t", "e", "r" >>

\* the sequence setup() falls back to: "440,100,300;0,0,100;660,100,300;"
DEFAULT_SEQUENCE ==
  << "4", "4", "0", ",", "1", "0", "0", ",", "3", "0", "0", ";",
     "0", ",", "0", ",", "1", "0", "0", ";",
     "6", "6", "0", ",", "1", "0", "0", ",", "3", "0", "0", ";" >>

\* ------------------------------------------------------------------------
\* State
\* ------------------------------------------------------------------------
VARIABLES
  servoTargets,        \* int servoTargets[NUM_SERVOS]
  currentAngles,       \* float currentAngles[NUM_SERVOS], in hundredths of a degree
  ledStates,           \* bool ledStates[NUM_LEDS]
  filter,              \* float filter, in hundredths
  potiControl,         \* bool potiControl (mapping mode)
  persistPotiPending,  \* bool persistPotiPending
  persistPotiAt,       \* unsigned long persistPotiAt
  prefPoti,            \* the "poti" value in the "ctrl" preferences namespace
  soundSequence,       \* String soundSequence
  playSound,           \* bool playSound
  toneIndex,           \* int toneIndex
  nextToneTime,        \* unsigned long nextToneTime
  buzzerFreq,          \* frequency last set on BUZZER_CHANNEL
  buzzerDuty,          \* duty last written to BUZZER_CHANNEL
  potiValues,          \* int potiValues[NUM_POTIS]
  touchValues,         \* int touchValues[NUM_TOUCH]
  schalterValues,      \* int schalterValues[NUM_SCHALTER]
  now,                 \* millis()
  clients,             \* the clients connected to the WebSocket ws
  outbox,              \* the text messages sent to each client, in order
  lastSendTime,        \* static unsigned long lastSendTime of loop()
  wsTask,              \* where the network callback stands, with its locals
  loopTask,            \* where the pass of loop() stands, with its locals
  flagChangedAt,       \* history: millis() at the latest change of potiControl
  last,                \* history: the operation that led to this state
  activated,           \* history: the steps activated since playback was started
  triggers,            \* history: switch triggers during the current assertion
  interrupted          \* history: playback was started over an unfinished sequence

cmdVars == << servoTargets, ledStates, filter, potiControl, persistPotiPending,
              persistPotiAt >>
toneVars == << soundSequence, playSound, toneIndex, nextToneTime, buzzerFreq,
               buzzerDuty >>
sensorVars == << potiValues, touchValues, schalterValues >>
wsVars == << clients, outbox, lastSendTime >>
vars == << servoTargets, currentAngles, ledStates, filter, potiControl,
           persistPotiPending, persistPotiAt, prefPoti, soundSequence, playSound,
           toneIndex, nextToneTime, buzzerFreq, buzzerDuty, potiValues,
           touchValues, schalterValues, now, clients, outbox, lastSendTime,
           wsTask, loopTask, flagChangedAt, last, activated, triggers,
           interrupted >>

ServoIdx == 0 .. (NUM_SERVOS - 1)
LedIdx == 0 .. (NUM_LEDS - 1)

\* the ids the server gives to the clients that connect
ClientIds == {1, 2}

\* ------------------------------------------------------------------------
\* Tone sequencer
\* ------------------------------------------------------------------------
\* mutant of MillisBefore: the step is taken as due one loop period early
MillisBefore_Early(t, due) == IF due < 0 THEN TRUE ELSE t + LOOP_DELAY < due

\* millis() < due on unsigned long.  A due time is kept as millis() + dur
\* before reduction mod 2^32: a negative sum stands for the wrapped value
\* 2^32 + sum, which lies beyond every time the model reaches.
MillisBefore(t, due) == IF due < 0 THEN TRUE ELSE t < due

\* mutant of StepDuty: the volume is applied whatever the frequency
StepDuty_IgnoreFreq(freq, vol) == Map(vol, 0, VOL_MAX, 0, DUTY_MAX)

\* the duty written when a step is activated
StepDuty(freq, vol) ==
  IF freq > 0 THEN Map(vol, 0, VOL_MAX, 0, DUTY_MAX) ELSE 0

\* the step updateToneSequence reads at cursor idx of seq
ParseStep(seq, idx) ==
  LET sep1 == IndexOf(seq, ",", idx)
      sep2 == IndexOf(seq, ",", sep1 + 1)
      sep3 == IndexOf(seq, ";", sep2 + 1)
  IN [sep1 |-> sep1, sep2 |-> sep2, sep3 |-> sep3,
      freq |-> ToInt(Substring(seq, idx, sep1)),
      vol |-> ToInt(Substring(seq, sep1 + 1, sep2)),
      dur |-> ToInt(Substring(seq, sep2 + 1,
                              IF sep3 = -1 THEN Len(seq) ELSE sep3)),
      next |-> IF sep3 = -1 THEN Len(seq) ELSE sep3 + 1]

\* mutant of UpdateToneSequence: a step without its two commas is left
\* without stopping the playback
UpdateToneSequence_NoMalformedStop(seq, c, t) ==
  IF ~c.playSound \/ MillisBefore(t, c.nextToneTime) THEN c
  ELSE IF c.toneIndex >= Len(seq)
  THEN [c EXCEPT !.buzzerDuty = 0, !.playSound = FALSE, !.toneIndex = 0]
  ELSE LET p == ParseStep(seq, c.toneIndex) IN
    IF p.sep1 = -1 \/ p.sep2 = -1
    THEN [c EXCEPT !.buzzerDuty = 0]
    ELSE [c EXCEPT
            !.buzzerFreq = IF p.freq > 0 THEN p.freq ELSE @,
            !.buzzerDuty = StepDuty(p.freq, p.vol),
            !.nextToneTime = t + p.dur,
            !.toneIndex = p.next,
            !.activated = Append(@, [seq |-> seq, idx |-> c.toneIndex,
                                     next |-> p.next, freq |-> p.freq,
                                     vol |-> p.vol, dur |-> p.dur,
                                     duty |-> StepDuty(p.freq, p.vol),
                                     at |-> t])]

\* updateToneSequence() at time t on sequence seq; c holds playSound,
\* toneIndex, nextToneTime, buzzerFreq, buzzerDuty and the activation history
UpdateToneSequence(seq, c, t) ==
  IF ~c.playSound \/ MillisBefore(t, c.nextToneTime) THEN c
  ELSE IF c.toneIndex >= Len(seq)
  THEN [c EXCEPT !.buzzerDuty = 0, !.playSound = FALSE, !.toneIndex = 0]
  ELSE LET p == ParseStep(seq, c.toneIndex) IN
    IF p.sep1 = -1 \/ p.sep2 = -1
    THEN [c EXCEPT !.buzzerDuty = 0, !.playSound = FALSE]
    ELSE [c EXCEPT
            !.buzzerFreq = IF p.freq > 0 THEN p.freq ELSE @,
            !.buzzerDuty = StepDuty(p.freq, p.vol),
            !.nextToneTime = t + p.dur,
            !.toneIndex = p.next,
            !.activated = Append(@, [seq |-> seq, idx |-> c.toneIndex,
                                     next |-> p.next, freq |-> p.freq,
                                     vol |-> p.vol, dur |-> p.dur,
                                     duty |-> StepDuty(p.freq, p.vol),
                                     at |-> t])]

\* ------------------------------------------------------------------------
\* WebSocket data handler (ws.onEvent, WS_EVT_DATA, one final text frame)
\* ------------------------------------------------------------------------
\* mutant of FrameDropped: the upper limit is not tested
FrameDropped_EmptyOnly(len) == len = 0

\* the length check made before anything is parsed
FrameDropped(len) == len = 0 \/ len > MAX_MSG

\* mutant of HandlePoti: the flag is written and the timer started without
\* comparing with the current state
HandlePoti_AlwaysArm(on) ==
  /\ potiControl' = on
  /\ persistPotiPending' = TRUE
  /\ persistPotiAt' = now + PERSIST_DELAY
  /\ UNCHANGED << servoTargets, ledStates, filter, toneVars, activated, interrupted >>

\* "poti:on" (on = TRUE) and "poti:off" (on = FALSE)
HandlePoti(on) ==
  /\ IF potiControl # on
     THEN /\ potiControl' = on
          /\ persistPotiPending' = TRUE
          /\ persistPotiAt' = now + PERSIST_DELAY
     ELSE UNCHANGED << potiControl, persistPotiPending, persistPotiAt >>
  /\ UNCHANGED << servoTargets, ledStates, filter, toneVars, activated, interrupted >>

\* mutant of FilterAccepted: the upper end of the range is not tested
FilterAccepted_NoUpper(f) == f >= 0

\* the range test on a parsed filter value
FilterAccepted(f) == f >= 0 /\ f <= FILTER_ONE

\* "filter:<float>"
HandleFilter(buf) ==
  LET r == ScanFloat(CStr(Drop(buf, Len(KW_FILTER)))) IN
  /\ filter' = IF r.ok /\ FilterAccepted(r.val) THEN r.val ELSE filter
  /\ UNCHANGED << servoTargets, ledStates, potiControl, persistPotiPending,
                  persistPotiAt, toneVars, activated, interrupted >>

\* mutant of ServoTarget: the angle is stored without constrain()
ServoTarget_Unclamped(val) == val

\* the target stored for a parsed angle
ServoTarget(val) == Constrain(val, 0, SERVO_MAX)

\* "servo:<idx>:<angle>"
HandleServo(buf) ==
  LET r == ScanIntColonInt(CStr(Drop(buf, Len(KW_SERVO)))) IN
  /\ servoTargets' =
       IF r.n >= 1 /\ r.idx >= 0 /\ r.idx < NUM_SERVOS
       THEN [servoTargets EXCEPT ![r.idx] = ServoTarget(r.val)]
       ELSE servoTargets
  /\ UNCHANGED << ledStates, filter, potiControl, persistPotiPending,
                  persistPotiAt, toneVars, activated, interrupted >>

\* "led:<idx>:<v>"
HandleLed(buf) ==
  LET r == ScanIntColonInt(CStr(Drop(buf, Len(KW_LED)))) IN
  /\ ledStates' =
       IF r.n >= 1 /\ r.idx >= 0 /\ r.idx < NUM_LEDS
       THEN [ledStates EXCEPT ![r.idx] = (r.val > 0)]
       ELSE ledStates
  /\ UNCHANGED << servoTargets, filter, potiControl, persistPotiPending,
                  persistPotiAt, toneVars, activated, interrupted >>

\* the payload test of the sound branch: TRUE when the command is dropped
SoundDropped(payload_len) == payload_len = 0 \/ payload_len > MAX_SOUND

\* mutant of HandleSound: the cursor index is not reset
HandleSound_KeepCursor(buf, len) ==
  IF len - Len(KW_SOUND) = 0 \/ len - Len(KW_SOUND) > MAX_SOUND
  THEN UNCHANGED << cmdVars, toneVars, activated, interrupted >>
  ELSE /\ soundSequence' = CStr(Drop(buf, Len(KW_SOUND)))
       /\ playSound' = TRUE
       /\ activated' = << >>
       /\ interrupted' = (playSound /\ toneIndex < Len(soundSequence))
       /\ UNCHANGED << cmdVars, toneIndex, nextToneTime, buzzerFreq, buzzerDuty >>

\* "sound:<payload>" in a frame of len bytes
HandleSound(buf, len) ==
  IF SoundDropped(len - Len(KW_SOUND))
  THEN UNCHANGED << cmdVars, toneVars, activated, interrupted >>
  ELSE /\ soundSequence' = CStr(Drop(buf, Len(KW_SOUND)))
       /\ playSound' = TRUE
       /\ toneIndex' = 0
       /\ activated' = << >>
       /\ interrupted' = (playSound /\ toneIndex < Len(soundSequence))
       /\ UNCHANGED << cmdVars, nextToneTime, buzzerFreq, buzzerDuty >>

\* WS_EVT_CONNECT for client c: the handler logs and returns
OnWsConnect(c) ==
  /\ c \notin clients
  /\ clients' = clients \cup {c}
  /\ last' = [op |-> "connect", frame |-> << >>, prePoti |-> potiControl,
              prePlaying |-> playSound, trig |-> FALSE, wrote |-> FALSE]
  /\ UNCHANGED << cmdVars, toneVars, sensorVars, currentAngles, prefPoti, now,
                  outbox, lastSendTime, wsTask, loopTask, flagChangedAt,
                  activated, triggers, interrupted >>

OnWsData(frame) ==
  /\ last' = [op |-> "ws", frame |-> frame, prePoti |-> potiControl,
              prePlaying |-> playSound, trig |-> FALSE, wrote |-> FALSE]
  /\ UNCHANGED << currentAngles, prefPoti, sensorVars, now, wsVars, wsTask,
                  loopTask, triggers >>
  /\ IF FrameDropped(Len(frame))
     THEN UNCHANGED << cmdVars, toneVars, activated, interrupted >>
     ELSE IF StrCmpEq(frame, KW_POTI_ON) THEN HandlePoti(TRUE)
     ELSE IF StrCmpEq(frame, KW_POTI_OFF) THEN HandlePoti(FALSE)
     ELSE IF StrNCmpEq(frame, KW_FILTER) THEN HandleFilter(frame)
     ELSE IF StrNCmpEq(frame, KW_SERVO) THEN HandleServo(frame)
     ELSE IF StrNCmpEq(frame, KW_LED) THEN HandleLed(frame)
     ELSE IF StrNCmpEq(frame, KW_SOUND) THEN HandleSound(frame, Len(frame))
     ELSE UNCHANGED << cmdVars, toneVars, activated, interrupted >>
  /\ flagChangedAt' = IF potiControl' # potiControl THEN now ELSE flagChangedAt

\* ------------------------------------------------------------------------
\* Control loop
\* ------------------------------------------------------------------------
\* mutant of MapperActive: the mapping block runs whatever the flag
MapperActive_Always(flag) == TRUE

\* the condition of the mapping block: if (potiControl)
MapperActive(flag) == flag

\* mutant of MapPoti: the input range of a 10-bit converter
MapPoti_TenBit(v) == Map(v, 0, 1023, 0, SERVO_MAX)

\* map(potiValues[i], 0, 4095, 0, 180)
MapPoti(v) == Map(v, 0, ANALOG_MAX, 0, SERVO_MAX)

\* the servo targets the mapping mode writes from the sensor readings
MapperTargets(st, poti, touch) ==
  LET m == [i \in ServoIdx |->
              IF i < 4 /\ i < NUM_POTIS THEN MapPoti(poti[i])
              ELSE IF i = 4 /\ NUM_TOUCH > 0
                THEN (IF touch[0] > TOUCH_THRESHOLD THEN 0 ELSE SERVO_INIT)
              ELSE IF i = 5 /\ NUM_TOUCH > 1
                THEN (IF touch[1] > TOUCH_THRESHOLD THEN SERVO_INIT ELSE 0)
              ELSE st[i]]
  IN [i \in ServoIdx |-> IF i >= 6 THEN m[0] ELSE m[i]]

\* the LED states the mapping mode writes
MapperLeds(leds, touch) ==
  IF NUM_TOUCH > 2 /\ NUM_LEDS > 0
  THEN [i \in LedIdx |-> touch[2] > TOUCH_THRESHOLD]
  ELSE leds

\* the switch test that starts the stored sequence
SwitchTrigger(sw, playing) == sw = LOW /\ ~playing

\* mutant of FilterStep: the two weights add up to more than one
FilterStep_SumAboveOne(cur, target, f) ==
  (f * cur + (FILTER_ONE + f) * target * ANGLE_SCALE + FILTER_ONE \div 2)
    \div FILTER_ONE

\* current = filter * current + (1.0 - filter) * target, rounded to the
\* nearest hundredth of a degree
FilterStep(cur, target, f) ==
  (f * cur + (FILTER_ONE - f) * target * ANGLE_SCALE + FILTER_ONE \div 2)
    \div FILTER_ONE

\* one field "<name><i>":<value> of the sensor snapshot
JsonField(name, i, v) ==
  << "\"" >> \o name \o IntToStr(i) \o << "\"", ":" >> \o IntToStr(v)

\* the fields of arr[i .. n - 1]; more tells that another group follows
RECURSIVE JsonFields(_, _, _, _, _)
JsonFields(name, arr, i, n, more) ==
  IF i >= n THEN << >>
  ELSE JsonField(name, i, arr[i])
         \o (IF i < n - 1 \/ more THEN << "," >> ELSE << >>)
         \o JsonFields(name, arr, i + 1, n, more)

\* the JSON text loop() broadcasts
SensorJson(poti, touch, schalter) ==
  << "{" >>
    \o JsonFields(N_POTI, poti, 0, NUM_POTIS, NUM_TOUCH > 0 \/ NUM_SCHALTER > 0)
    \o JsonFields(N_TOUCH, touch, 0, NUM_TOUCH, NUM_SCHALTER > 0)
    \o JsonFields(N_SCHALTER, schalter, 0, NUM_SCHALTER, FALSE)
    \o << "}" >>

\* ws.textAll(text): the text is sent to every connected client
TextAll(box, text) ==
  [c \in ClientIds |-> IF c \in clients THEN Append(box[c], text) ELSE box[c]]

\* the segments of loop(), in their order: the deferred persist, the sensor
\* reads with broadcast, mapping, filter and pin writes, updateToneSequence(),
\* and the delay
LoopSegments == {"persist", "sensors", "tone", "delay"}

\* the segments segs of one pass of loop() run without interruption, reading
\* r = [poti, touch, schalter] from the pins; the pass takes busy ms on top of
\* its delay(10)
LoopRun(r, busy, segs) ==
  LET persist == "persist" \in segs /\ persistPotiPending /\ now >= persistPotiAt
      sens == "sensors" \in segs
      mapping == sens /\ MapperActive(potiControl)
      st == IF mapping THEN MapperTargets(servoTargets, r.poti, r.touch)
            ELSE servoTargets
      trig == mapping /\ SwitchTrigger(r.schalter[0], playSound)
      c0 == [playSound |-> IF trig THEN TRUE ELSE playSound,
             toneIndex |-> IF trig THEN 0 ELSE toneIndex,
             nextToneTime |-> nextToneTime,
             buzzerFreq |-> buzzerFreq,
             buzzerDuty |-> buzzerDuty,
             activated |-> IF trig THEN << >> ELSE activated]
      c1 == IF "tone" \in segs THEN UpdateToneSequence(soundSequence, c0, now)
            ELSE c0
      send == sens /\ now - lastSendTime > SEND_INTERVAL
  IN /\ persistPotiPending' = IF persist THEN FALSE ELSE persistPotiPending
     /\ prefPoti' = IF persist THEN potiControl ELSE prefPoti
     /\ potiValues' = IF sens THEN r.poti ELSE potiValues
     /\ touchValues' = IF sens THEN r.touch ELSE touchValues
     /\ schalterValues' = IF sens THEN r.schalter ELSE schalterValues
     /\ lastSendTime' = IF send THEN now ELSE lastSendTime
     /\ outbox' = IF send
                  THEN TextAll(outbox, SensorJson(r.poti, r.touch, r.schalter))
                  ELSE outbox
     /\ servoTargets' = st
     /\ ledStates' = IF mapping THEN MapperLeds(ledStates, r.touch)
                     ELSE ledStates
     /\ currentAngles' =
          IF sens
          THEN [i \in ServoIdx |-> FilterStep(currentAngles[i], st[i], filter)]
          ELSE currentAngles
     /\ playSound' = c1.playSound
     /\ toneIndex' = c1.toneIndex
     /\ nextToneTime' = c1.nextToneTime
     /\ buzzerFreq' = c1.buzzerFreq
     /\ buzzerDuty' = c1.buzzerDuty
     /\ activated' = c1.activated
     /\ interrupted' = IF trig THEN FALSE ELSE interrupted
     /\ triggers' = IF ~sens THEN triggers
                    ELSE IF r.schalter[0] = HIGH THEN 0
                    ELSE IF trig THEN triggers + 1 ELSE triggers
     /\ last' = [op |-> "loop", frame |-> << >>, prePoti |-> potiControl,
                 prePlaying |-> playSound, trig |-> trig, wrote |-> persist]
     /\ now' = IF "delay" \in segs THEN now + busy + LOOP_DELAY ELSE now
     /\ UNCHANGED << filter, potiControl, persistPotiAt, soundSequence, clients,
                     wsTask, flagChangedAt >>

\* one pass of loop(), uninterrupted
Loop(r, busy) == LoopRun(r, busy, LoopSegments) /\ UNCHANGED loopTask

\* ------------------------------------------------------------------------
\* The handler and loop() as two tasks.  The handler runs in the task of the
\* TCP library and loop() in the Arduino loop task; the globals they share
\* are plain variables, so the statements of the two interleave.  One action
\* is one read or one write of a shared variable.
\* ------------------------------------------------------------------------
Step(op, wrote) ==
  [op |-> op, frame |-> << >>, prePoti |-> potiControl,
   prePlaying |-> playSound, trig |-> FALSE, wrote |-> wrote]

\* the variables the poti branch and the deferred persist do not touch
persistOther == << servoTargets, currentAngles, ledStates, filter, toneVars,
                  sensorVars, now, wsVars, activated, triggers, interrupted >>

\* the handler on "poti:on" / "poti:off": strcmp, then the test of the flag
PotiBegin(frame) ==
  /\ wsTask.pc = "idle"
  /\ ~FrameDropped(Len(frame))
  /\ StrCmpEq(frame, KW_POTI_ON) \/ StrCmpEq(frame, KW_POTI_OFF)
  /\ wsTask' = IF potiControl # StrCmpEq(frame, KW_POTI_ON)
               THEN [wsTask EXCEPT !.pc = "poti_flag",
                                   !.arg = StrCmpEq(frame, KW_POTI_ON)]
               ELSE wsTask
  /\ last' = [Step("ws_step", FALSE) EXCEPT !.frame = frame]
  /\ UNCHANGED << potiControl, persistPotiPending, persistPotiAt, prefPoti,
                  flagChangedAt, loopTask, persistOther >>

\* potiControl = true / false
PotiSetFlag ==
  /\ wsTask.pc = "poti_flag"
  /\ potiControl' = wsTask.arg
  /\ flagChangedAt' = IF potiControl # wsTask.arg THEN now ELSE flagChangedAt
  /\ wsTask' = [wsTask EXCEPT !.pc = "poti_pending"]
  /\ last' = Step("ws_step", FALSE)
  /\ UNCHANGED << persistPotiPending, persistPotiAt, prefPoti, loopTask,
                  persistOther >>

\* mutant of PotiSetPending: the handler does not mark the change as pending
PotiSetPending_NoArm ==
  /\ wsTask.pc = "poti_pending"
  /\ wsTask' = [wsTask EXCEPT !.pc = "poti_at"]
  /\ last' = Step("ws_step", FALSE)
  /\ UNCHANGED << potiControl, persistPotiPending, persistPotiAt, prefPoti,
                  flagChangedAt, loopTask, persistOther >>

\* persistPotiPending = true
PotiSetPending ==
  /\ wsTask.pc = "poti_pending"
  /\ persistPotiPending' = TRUE
  /\ wsTask' = [wsTask EXCEPT !.pc = "poti_at"]
  /\ last' = Step("ws_step", FALSE)
  /\ UNCHANGED << potiControl, persistPotiAt, prefPoti, flagChangedAt, loopTask,
                  persistOther >>

\* persistPotiAt = millis() + 1000, and the handler returns
PotiSetAt ==
  /\ wsTask.pc = "poti_at"
  /\ persistPotiAt' = now + PERSIST_DELAY
  /\ wsTask' = [wsTask EXCEPT !.pc = "idle"]
  /\ last' = Step("ws_step", FALSE)
  /\ UNCHANGED << potiControl, persistPotiPending, prefPoti, flagChangedAt,
                  loopTask, persistOther >>

\* loop(): the read of persistPotiPending in the test of the deferred persist
PersistTestPending ==
  /\ loopTask.pc = "idle"
  /\ loopTask' = [pc |-> IF persistPotiPending THEN "persist_due" ELSE "sensors"]
  /\ last' = Step("loop_step", FALSE)
  /\ UNCHANGED << potiControl, persistPotiPending, persistPotiAt, prefPoti,
                  flagChangedAt, wsTask, persistOther >>

\* loop(): millis() >= persistPotiAt
PersistTestDue ==
  /\ loopTask.pc = "persist_due"
  /\ loopTask' = [pc |-> IF now >= persistPotiAt THEN "persist_clear"
                         ELSE "sensors"]
  /\ last' = Step("loop_step", FALSE)
  /\ UNCHANGED << potiControl, persistPotiPending, persistPotiAt, prefPoti,
                  flagChangedAt, wsTask, persistOther >>

\* loop(): persistPotiPending = false
PersistClear ==
  /\ loopTask.pc = "persist_clear"
  /\ persistPotiPending' = FALSE
  /\ loopTask' = [pc |-> "persist_put"]
  /\ last' = Step("loop_step", FALSE)
  /\ UNCHANGED << potiControl, persistPotiAt, prefPoti, flagChangedAt, wsTask,
                  persistOther >>

\* loop(): preferences.putBool("poti", potiControl)
PersistPut ==
  /\ loopTask.pc = "persist_put"
  /\ prefPoti' = potiControl
  /\ loopTask' = [pc |-> "sensors"]
  /\ last' = Step("loop_step", TRUE)
  /\ UNCHANGED << potiControl, persistPotiPending, persistPotiAt, flagChangedAt,
                  wsTask, persistOther >>

\* loop() from the sensor reads to the delay, once the persist block is done
LoopAfterPersist(r, busy) ==
  /\ loopTask.pc = "sensors"
  /\ loopTask' = [pc |-> "idle"]
  /\ LoopRun(r, busy, LoopSegments \ {"persist"})

\* the variables the sound branch and updateToneSequence() do not touch
toneOther == << servoTargets, currentAngles, ledStates, filter, potiControl,
               persistPotiPending, persistPotiAt, prefPoti, sensorVars, now,
               wsVars, flagChangedAt, triggers, interrupted >>

\* the handler on "sound:<payload>": the length checks and the payload test
SoundBegin(frame) ==
  /\ wsTask.pc = "idle"
  /\ ~FrameDropped(Len(frame))
  /\ ~StrCmpEq(frame, KW_POTI_ON) /\ ~StrCmpEq(frame, KW_POTI_OFF)
  /\ StrNCmpEq(frame, KW_SOUND)
  /\ wsTask' = IF SoundDropped(Len(frame) - Len(KW_SOUND)) THEN wsTask
               ELSE [wsTask EXCEPT !.pc = "sound_seq",
                                   !.arg = CStr(Drop(frame, Len(KW_SOUND)))]
  /\ last' = [Step("ws_step", FALSE) EXCEPT !.frame = frame]
  /\ UNCHANGED << toneVars, activated, loopTask, toneOther >>

\* soundSequence = String(buf + 6)
SoundSetSeq ==
  /\ wsTask.pc = "sound_seq"
  /\ soundSequence' = wsTask.arg
  /\ activated' = << >>
  /\ wsTask' = [wsTask EXCEPT !.pc = "sound_play", !.accepted = FALSE]
  /\ last' = Step("ws_step", FALSE)
  /\ UNCHANGED << playSound, toneIndex, nextToneTime, buzzerFreq, buzzerDuty,
                  loopTask, toneOther >>

\* playSound = true
SoundSetPlay ==
  /\ wsTask.pc = "sound_play"
  /\ playSound' = TRUE
  /\ wsTask' = [wsTask EXCEPT !.pc = "sound_idx"]
  /\ last' = Step("ws_step", FALSE)
  /\ UNCHANGED << soundSequence, toneIndex, nextToneTime, buzzerFreq, buzzerDuty,
                  activated, loopTask, toneOther >>

\* toneIndex = 0, and the handler returns
SoundSetIdx ==
  /\ wsTask.pc = "sound_idx"
  /\ toneIndex' = 0
  /\ wsTask' = [wsTask EXCEPT !.pc = "idle", !.accepted = TRUE]
  /\ last' = Step("ws_step", FALSE)
  /\ UNCHANGED << soundSequence, playSound, nextToneTime, buzzerFreq, buzzerDuty,
                  activated, loopTask, toneOther >>

\* loop() from its start to the call of updateToneSequence()
LoopBeforeTone(r) ==
  /\ loopTask.pc = "idle"
  /\ loopTask' = [pc |-> "seq_guard"]
  /\ LoopRun(r, 0, {"persist", "sensors"})

\* what a statement of updateToneSequence() leaves alone besides the
\* sequencer's own variables
SeqFrame ==
  /\ last' = Step("loop_step", FALSE)
  /\ UNCHANGED << wsTask, toneOther >>

\* if (!playSound || millis() < nextToneTime) return
SeqGuard ==
  /\ loopTask.pc = "seq_guard"
  /\ loopTask' = [pc |-> IF ~playSound \/ MillisBefore(now, nextToneTime)
                         THEN "delay" ELSE "seq_end"]
  /\ UNCHANGED << toneVars, activated >>
  /\ SeqFrame

\* if (toneIndex >= soundSequence.length())
SeqEnd ==
  /\ loopTask.pc = "seq_end"
  /\ loopTask' = [pc |-> IF toneIndex >= Len(soundSequence)
                         THEN "seq_stop_mute" ELSE "seq_sep1"]
  /\ UNCHANGED << toneVars, activated >>
  /\ SeqFrame

\* end of the sequence: ledcWrite(BUZZER_CHANNEL, 0)
SeqStopMute ==
  /\ loopTask.pc = "seq_stop_mute"
  /\ buzzerDuty' = 0
  /\ loopTask' = [pc |-> "seq_stop_play"]
  /\ UNCHANGED << soundSequence, playSound, toneIndex, nextToneTime, buzzerFreq,
                  activated >>
  /\ SeqFrame

\* end of the sequence: playSound = false
SeqStopPlay ==
  /\ loopTask.pc = "seq_stop_play"
  /\ playSound' = FALSE
  /\ loopTask' = [pc |-> "seq_stop_idx"]
  /\ UNCHANGED << soundSequence, toneIndex, nextToneTime, buzzerFreq, buzzerDuty,
                  activated >>
  /\ SeqFrame

\* end of the sequence: toneIndex = 0, return
SeqStopIdx ==
  /\ loopTask.pc = "seq_stop_idx"
  /\ toneIndex' = 0
  /\ loopTask' = [pc |-> "delay"]
  /\ UNCHANGED << soundSequence, playSound, nextToneTime, buzzerFreq, buzzerDuty,
                  activated >>
  /\ SeqFrame

\* int sep1 = soundSequence.indexOf(',', toneIndex); idx and texts record the
\* cursor and the sequence texts the run has read
SeqSep1 ==
  /\ loopTask.pc = "seq_sep1"
  /\ loopTask' = [pc |-> "seq_sep2", idx |-> toneIndex,
                  texts |-> {soundSequence},
                  sep1 |-> IndexOf(soundSequence, ",", toneIndex)]
  /\ UNCHANGED << toneVars, activated >>
  /\ SeqFrame

\* int sep2 = soundSequence.indexOf(',', sep1 + 1)
SeqSep2 ==
  /\ loopTask.pc = "seq_sep2"
  /\ loopTask' = [pc |-> "seq_sep3", idx |-> loopTask.idx,
                  texts |-> loopTask.texts \cup {soundSequence},
                  sep1 |-> loopTask.sep1,
                  sep2 |-> IndexOf(soundSequence, ",", loopTask.sep1 + 1)]
  /\ UNCHANGED << toneVars, activated >>
  /\ SeqFrame

\* int sep3 = soundSequence.indexOf(';', sep2 + 1), then the test
\* if (sep1 == -1 || sep2 == -1) on the three locals
SeqSep3 ==
  /\ loopTask.pc = "seq_sep3"
  /\ loopTask' = [pc |-> IF loopTask.sep1 = -1 \/ loopTask.sep2 = -1
                         THEN "seq_bad_mute" ELSE "seq_freq",
                  idx |-> loopTask.idx,
                  texts |-> loopTask.texts \cup {soundSequence},
                  sep1 |-> loopTask.sep1, sep2 |-> loopTask.sep2,
                  sep3 |-> IndexOf(soundSequence, ";", loopTask.sep2 + 1)]
  /\ UNCHANGED << toneVars, activated >>
  /\ SeqFrame

\* malformed step: ledcWrite(BUZZER_CHANNEL, 0)
SeqBadMute ==
  /\ loopTask.pc = "seq_bad_mute"
  /\ buzzerDuty' = 0
  /\ loopTask' = [pc |-> "seq_bad_play"]
  /\ UNCHANGED << soundSequence, playSound, toneIndex, nextToneTime, buzzerFreq,
                  activated >>
  /\ SeqFrame

\* malformed step: playSound = false, return
SeqBadPlay ==
  /\ loopTask.pc = "seq_bad_play"
  /\ playSound' = FALSE
  /\ loopTask' = [pc |-> "delay"]
  /\ UNCHANGED << soundSequence, toneIndex, nextToneTime, buzzerFreq, buzzerDuty,
                  activated >>
  /\ SeqFrame

\* int freq = soundSequence.substring(toneIndex, sep1).toInt()
SeqFreq ==
  /\ loopTask.pc = "seq_freq"
  /\ loopTask' = [pc |-> "seq_vol", idx |-> loopTask.idx,
                  texts |-> loopTask.texts \cup {soundSequence},
                  sep1 |-> loopTask.sep1, sep2 |-> loopTask.sep2,
                  sep3 |-> loopTask.sep3,
                  freq |-> ToInt(Substring(soundSequence, toneIndex,
                                           loopTask.sep1))]
  /\ UNCHANGED << toneVars, activated >>
  /\ SeqFrame

\* int vol = soundSequence.substring(sep1 + 1, sep2).toInt()
SeqVol ==
  /\ loopTask.pc = "seq_vol"
  /\ loopTask' = [pc |-> "seq_dur", idx |-> loopTask.idx,
                  texts |-> loopTask.texts \cup {soundSequence},
                  sep1 |-> loopTask.sep1, sep2 |-> loopTask.sep2,
                  sep3 |-> loopTask.sep3, freq |-> loopTask.freq,
                  vol |-> ToInt(Substring(soundSequence, loopTask.sep1 + 1,
                                          loopTask.sep2))]
  /\ UNCHANGED << toneVars, activated >>
  /\ SeqFrame

\* int dur = soundSequence.substring(sep2 + 1,
\*   sep3 == -1 ? soundSequence.length() : sep3).toInt()
SeqDur ==
  /\ loopTask.pc = "seq_dur"
  /\ loopTask' = [pc |-> "seq_output", idx |-> loopTask.idx,
                  texts |-> loopTask.texts \cup {soundSequence},
                  sep1 |-> loopTask.sep1, sep2 |-> loopTask.sep2,
                  sep3 |-> loopTask.sep3, freq |-> loopTask.freq,
                  vol |-> loopTask.vol,
                  dur |-> ToInt(Substring(soundSequence, loopTask.sep2 + 1,
                                          IF loopTask.sep3 = -1
                                          THEN Len(soundSequence)
                                          ELSE loopTask.sep3))]
  /\ UNCHANGED << toneVars, activated >>
  /\ SeqFrame

\* the writes to the buzzer channel
SeqOutput ==
  /\ loopTask.pc = "seq_output"
  /\ buzzerFreq' = IF loopTask.freq > 0 THEN loopTask.freq ELSE buzzerFreq
  /\ buzzerDuty' = StepDuty(loopTask.freq, loopTask.vol)
  /\ loopTask' = [loopTask EXCEPT !.pc = "seq_next"]
  /\ UNCHANGED << soundSequence, playSound, toneIndex, nextToneTime, activated >>
  /\ SeqFrame

\* nextToneTime = millis() + dur
SeqSetNext ==
  /\ loopTask.pc = "seq_next"
  /\ nextToneTime' = now + loopTask.dur
  /\ loopTask' = [loopTask EXCEPT !.pc = "seq_idx"]
  /\ UNCHANGED << soundSequence, playSound, toneIndex, buzzerFreq, buzzerDuty,
                  activated >>
  /\ SeqFrame

\* toneIndex = (sep3 == -1) ? soundSequence.length() : sep3 + 1; the step is
\* entered in the history with the texts read on the way
SeqSetIdx ==
  /\ loopTask.pc = "seq_idx"
  /\ toneIndex' = IF loopTask.sep3 = -1 THEN Len(soundSequence)
                  ELSE loopTask.sep3 + 1
  /\ activated' = Append(activated,
       [seq |-> soundSequence, idx |-> loopTask.idx, next |-> toneIndex',
        freq |-> loopTask.freq, vol |-> loopTask.vol, dur |-> loopTask.dur,
        duty |-> StepDuty(loopTask.freq, loopTask.vol), at |-> now,
        texts |-> loopTask.texts \cup {soundSequence}])
  /\ loopTask' = [pc |-> "delay"]
  /\ UNCHANGED << soundSequence, playSound, nextToneTime, buzzerFreq, buzzerDuty >>
  /\ SeqFrame

\* delay(10) at the end of loop()
LoopDelay(r, busy) ==
  /\ loopTask.pc = "delay"
  /\ loopTask' = [pc |-> "idle"]
  /\ LoopRun(r, busy, {"delay"})

\* ------------------------------------------------------------------------
\* Initial state: the globals as setup() leaves them.  The mapping flag and
\* the sequence come from the preferences, which hold what an earlier run
\* stored.
\* ------------------------------------------------------------------------
InitWith(sequences) ==
  /\ servoTargets = [i \in ServoIdx |-> SERVO_INIT]
  /\ currentAngles = [i \in ServoIdx |-> SERVO_INIT * ANGLE_SCALE]
  /\ ledStates = [i \in LedIdx |-> FALSE]
  /\ filter = FILTER_INIT
  /\ prefPoti \in BOOLEAN
  /\ potiControl = prefPoti
  /\ persistPotiPending = FALSE
  /\ persistPotiAt = 0
  /\ soundSequence \in sequences
  /\ playSound = FALSE
  /\ toneIndex = 0
  /\ nextToneTime = 0
  /\ buzzerFreq = BUZZER_INIT_FREQ
  /\ buzzerDuty = 0
  /\ potiValues = [i \in 0 .. (NUM_POTIS - 1) |-> 0]
  /\ touchValues = [i \in 0 .. (NUM_TOUCH - 1) |-> 0]
  /\ schalterValues = [i \in {0} |-> 0]
  /\ now = 0
  /\ clients = {}
  /\ outbox = [c \in ClientIds |-> << >>]
  /\ lastSendTime = 0
  /\ wsTask = [pc |-> "idle", arg |-> FALSE, accepted |-> FALSE]
  /\ loopTask = [pc |-> "idle"]
  /\ flagChangedAt = -1
  /\ last = [op |-> "setup", frame |-> << >>, prePoti |-> FALSE,
             prePlaying |-> FALSE, trig |-> FALSE, wrote |-> FALSE]
  /\ activated = << >>
  /\ triggers = 0
  /\ interrupted = FALSE

\* ------------------------------------------------------------------------
\* Inputs: the frames a client sends and the readings of the pins
\* ------------------------------------------------------------------------
Pad(n) == [i \in 1 .. n |-> " "]

\* "filter:0.5"
F_FILTER_HALF ==
  << "f", "i", "l", "t", "e", "r", ":", "0", ".", "5" >>

\* "filter:1.5"
F_FILTER_ABOVE ==
  << "f", "i", "l", "t", "e", "r", ":", "1", ".", "5" >>

\* "filter:-0.2"
F_FILTER_BELOW ==
  << "f", "i", "l", "t", "e", "r", ":", "-", "0", ".", "2" >>

\* "filter:1"
F_FILTER_FULL ==
  << "f", "i", "l", "t", "e", "r", ":", "1" >>

\* "filter:x"
F_FILTER_TEXT ==
  << "f", "i", "l", "t", "e", "r", ":", "x" >>

\* "servo:0:45"
F_SERVO_45 ==
  << "s", "e", "r", "v", "o", ":", "0", ":", "4", "5" >>

\* "servo:0:200"
F_SERVO_200 ==
  << "s", "e", "r", "v", "o", ":", "0", ":", "2", "0", "0" >>

\* "servo:0:-10"
F_SERVO_NEG ==
  << "s", "e", "r", "v", "o", ":", "0", ":", "-", "1", "0" >>

\* "servo:6:90"
F_SERVO_IDX6 ==
  << "s", "e", "r", "v", "o", ":", "6", ":", "9", "0" >>

\* "filter:0"
F_FILTER_ZERO ==
  << "f", "i", "l", "t", "e", "r", ":", "0" >>

\* "filter:0.99"
F_FILTER_SLOW ==
  << "f", "i", "l", "t", "e", "r", ":", "0", ".", "9", "9" >>

\* "servo:1:180"
F_SERVO_1_180 ==
  << "s", "e", "r", "v", "o", ":", "1", ":", "1", "8", "0" >>

\* "led:0:1"
F_LED_ON ==
  << "l", "e", "d", ":", "0", ":", "1" >>

\* "led:3:1"
F_LED_IDX3 ==
  << "l", "e", "d", ":", "3", ":", "1" >>

\* "servo:0"
F_SERVO_NOVAL ==
  << "s", "e", "r", "v", "o", ":", "0" >>

\* "servo:0:x"
F_SERVO_BADVAL ==
  << "s", "e", "r", "v", "o", ":", "0", ":", "x" >>

\* "led:0"
F_LED_NOVAL ==
  << "l", "e", "d", ":", "0" >>

\* "led:0:x"
F_LED_BADVAL ==
  << "l", "e", "d", ":", "0", ":", "x" >>

\* "hello"
F_UNKNOWN ==
  << "h", "e", "l", "l", "o" >>

\* "SERVO:0:45"
F_SERVO_UPPER ==
  << "S", "E", "R", "V", "O", ":", "0", ":", "4", "5" >>

\* "poti:ON"
F_POTI_ON_UPPER ==
  << "p", "o", "t", "i", ":", "O", "N" >>

\* "poti:maybe"
F_POTI_MAYBE ==
  << "p", "o", "t", "i", ":", "m", "a", "y", "b", "e" >>

\* "poti:on "
F_POTI_ON_SPACE ==
  << "p", "o", "t", "i", ":", "o", "n", " " >>

\* "servo:-1:90"
F_SERVO_IDXNEG ==
  << "s", "e", "r", "v", "o", ":", "-", "1", ":", "9", "0" >>

\* "led:-1:1"
F_LED_IDXNEG ==
  << "l", "e", "d", ":", "-", "1", ":", "1" >>

\* "sound:0,0,10;"
F_SOUND_SILENT ==
  << "s", "o", "u", "n", "d", ":", "0", ",", "0", ",", "1", "0", ";" >>

\* "sound:1000,80,20;800,60,30;"
F_SOUND_TWO ==
  << "s", "o", "u", "n", "d", ":", "1", "0", "0", "0", ",", "8", "0", ",",
  "2", "0", ";", "8", "0", "0", ",", "6", "0", ",", "3", "0", ";" >>

\* "sound:0,50,20;500,50,10;"
F_SOUND_PAUSE ==
  << "s", "o", "u", "n", "d", ":", "0", ",", "5", "0", ",", "2", "0", ";",
  "5", "0", "0", ",", "5", "0", ",", "1", "0", ";" >>

\* "sound:500,200,10;"
F_SOUND_LOUD ==
  << "s", "o", "u", "n", "d", ":", "5", "0", "0", ",", "2", "0", "0", ",",
  "1", "0", ";" >>

\* "sound:500,50,10;700"
F_SOUND_THEN_BAD ==
  << "s", "o", "u", "n", "d", ":", "5", "0", "0", ",", "5", "0", ",", "1",
  "0", ";", "7", "0", "0" >>

\* "700,50,20;"
SEQ_SHORT ==
  << "7", "0", "0", ",", "5", "0", ",", "2", "0", ";" >>

\* malformed and unusual sequences
\* "sound:500"
F_SOUND_NOSEP ==
  << "s", "o", "u", "n", "d", ":", "5", "0", "0" >>

\* "sound:500,50"
F_SOUND_ONESEP ==
  << "s", "o", "u", "n", "d", ":", "5", "0", "0", ",", "5", "0" >>

\* "sound:500,50,10"
F_SOUND_NOSEMI ==
  << "s", "o", "u", "n", "d", ":", "5", "0", "0", ",", "5", "0", ",", "1",
  "0" >>

\* "sound:100;200,50,10;"
F_SOUND_SPLIT ==
  << "s", "o", "u", "n", "d", ":", "1", "0", "0", ";", "2", "0", "0", ",",
  "5", "0", ",", "1", "0", ";" >>

\* "sound:0,0,10;500,50,-5;"
F_SOUND_NEGDUR ==
  << "s", "o", "u", "n", "d", ":", "0", ",", "0", ",", "1", "0", ";", "5",
  "0", "0", ",", "5", "0", ",", "-", "5", ";" >>

\* "sound:5,"
F_SOUND_TRAILCOMMA ==
  << "s", "o", "u", "n", "d", ":", "5", "," >>

\* "700,50"
SEQ_TRUNC ==
  << "7", "0", "0", ",", "5", "0" >>

\* frames at and beyond the size limit: 128 and 129 bytes, and a sound frame
\* whose payload is longer than MAX_SOUND
F_SERVO_AT_LIMIT == F_SERVO_45 \o Pad(MAX_MSG - Len(F_SERVO_45))
F_SERVO_OVER_LIMIT == F_SERVO_45 \o Pad(MAX_MSG + 1 - Len(F_SERVO_45))
F_SOUND_AT_LIMIT == F_SOUND_SILENT \o Pad(MAX_MSG - Len(F_SOUND_SILENT))
F_SOUND_OVER_LIMIT == F_SOUND_SILENT \o Pad(MAX_MSG + 1 - Len(F_SOUND_SILENT))
F_SOUND_OVER_PAYLOAD ==
  F_SOUND_SILENT \o Pad(Len(KW_SOUND) + MAX_SOUND + 1 - Len(F_SOUND_SILENT))
F_EMPTY == << >>

\* frames of the mapping-mode specification
CmdFrames ==
  { KW_POTI_ON, KW_POTI_OFF, F_SERVO_45, F_SERVO_200, F_SERVO_NEG, F_SERVO_IDX6 }

\* frames of the parsing specification
ParseFrames ==
  { F_FILTER_HALF, F_FILTER_ABOVE, F_FILTER_BELOW, F_FILTER_FULL, F_FILTER_TEXT,
    F_LED_ON, F_LED_IDX3, F_SOUND_SILENT,
    F_SERVO_AT_LIMIT, F_SERVO_OVER_LIMIT, F_SOUND_AT_LIMIT, F_SOUND_OVER_LIMIT,
    F_SOUND_OVER_PAYLOAD, F_EMPTY }

ToneFrames == { F_SOUND_SILENT, F_SOUND_TWO, F_SOUND_PAUSE, F_SOUND_LOUD }

\* frames of the specification of the two tasks on the sequencer
RaceFrames == { F_SOUND_TWO, F_SOUND_SILENT }

\* frames of the termination specification
LiveFrames ==
  { F_SOUND_SILENT, F_SOUND_TWO, F_SOUND_NOSEP, F_SOUND_ONESEP, F_SOUND_NOSEMI,
    F_SOUND_SPLIT, F_SOUND_NEGDUR, F_SOUND_TRAILCOMMA }

\* frames of the connection specification
ConnFrames == { F_SERVO_45, F_FILTER_HALF, KW_POTI_ON }

\* frames of the filter specification: coefficients 0, 0.5, 0.99 and 1 (0.9
\* is the initial one), a target below and a target above the initial angle
FilterFrames ==
  { F_FILTER_ZERO, F_FILTER_HALF, F_FILTER_SLOW, F_FILTER_FULL,
    F_SERVO_45, F_SERVO_1_180 }

\* servo and led frames without a usable second field
NoValueServoFrames == { F_SERVO_NOVAL, F_SERVO_BADVAL }
NoValueLedFrames == { F_LED_NOVAL, F_LED_BADVAL }

\* frames of the field specification: complete frames set the channel, the
\* others follow
FieldFrames ==
  { F_SERVO_45, F_LED_ON } \cup NoValueServoFrames \cup NoValueLedFrames

\* frames that name no command or a channel that does not exist
DroppedFrames ==
  { F_UNKNOWN, F_SERVO_UPPER, F_POTI_ON_UPPER, F_POTI_MAYBE, F_POTI_ON_SPACE,
    F_SERVO_IDX6, F_SERVO_IDXNEG, F_LED_IDX3, F_LED_IDXNEG }

\* frames of the dispatch specification
DropFrames == DroppedFrames \cup { F_SERVO_45, F_LED_ON, KW_POTI_ON }

\* frames of the cursor specification: sequences of different lengths, well
\* formed and not
CursorFrames ==
  { F_SOUND_TWO, F_SOUND_SILENT, F_SOUND_SPLIT, F_SOUND_ONESEP,
    F_SOUND_THEN_BAD }

Arr(t) == [i \in 0 .. (Len(t) - 1) |-> t[i + 1]]

Reading(poti, touch, sw) ==
  [poti |-> Arr(poti), touch |-> Arr(touch), schalter |-> Arr(<< sw >>)]

CmdReadings ==
  { Reading(<< 0, 0, 0, 0 >>, << 0, 0, 0 >>, HIGH),
    Reading(<< ANALOG_MAX, ANALOG_MAX, ANALOG_MAX, ANALOG_MAX >>,
            << 100, 100, 100 >>, HIGH),
    Reading(<< 1, 2047, 4094, ANALOG_MAX >>, << 41, 40, 41 >>, LOW) }

\* the time a pass of loop() takes beyond its delay, in the sequencer runs
LoopBusy == {0, 5}

\* the same in the runs over the persist delay: a pass every 250 ms
PersistBusy == {240}

\* the readings of idle inputs: potis at mid-range, switch released
IdleReadings ==
  { Reading(<< 2048, 2048, 2048, 2048 >>, << 0, 100, 0 >>, HIGH) }

\* the same with the switch pressed
PressedReadings ==
  { Reading(<< 2048, 2048, 2048, 2048 >>, << 0, 100, 0 >>, LOW) }

\* readings that map every servo to its initial target: only the switch varies
ToneReadings ==
  { Reading(<< 2048, 2048, 2048, 2048 >>, << 0, 100, 0 >>, HIGH),
    Reading(<< 2048, 2048, 2048, 2048 >>, << 0, 100, 0 >>, LOW) }

\* ------------------------------------------------------------------------
\* Specifications
\* ------------------------------------------------------------------------
MaxTime == 20
MaxTimeParse == 10
MaxTimeTone == 90
MaxTimeConn == 70
MaxTimePersist == 1300
MaxTimeRace == 20
MaxStartLive == 20
MaxTimeLive == 100
MaxStartFilter == 20
MaxTimeFilter == 150
MaxTimeFields == 20
MaxTimeDrop == 70
MaxTimeCursor == 50

\* mapping mode: servo and poti frames, ticks over varied readings
Init == InitWith({DEFAULT_SEQUENCE})

Next ==
  \/ \E f \in CmdFrames : OnWsData(f)
  \/ \E r \in CmdReadings : now < MaxTime /\ Loop(r, 0)

Spec == Init /\ [][Next]_vars

\* frame parsing: every kind of frame, frames at the size limits
NextParse ==
  \/ \E f \in ParseFrames : OnWsData(f)
  \/ \E r \in ToneReadings : now < MaxTimeParse /\ Loop(r, 0)

SpecParse == Init /\ [][NextParse]_vars

\* tone sequencer: sound frames and the switch, over a longer time
InitTone == InitWith({DEFAULT_SEQUENCE, SEQ_SHORT})

NextTone ==
  \/ \E f \in ToneFrames : OnWsData(f)
  \/ \E r \in ToneReadings, busy \in LoopBusy : now < MaxTimeTone /\ Loop(r, busy)

SpecTone == InitTone /\ [][NextTone]_vars

\* connections: clients join, send frames and receive the broadcast
NextConn ==
  \/ \E c \in ClientIds : OnWsConnect(c)
  \/ \E c \in clients, f \in ConnFrames : OnWsData(f)
  \/ \E r \in IdleReadings : now < MaxTimeConn /\ Loop(r, 0)

SpecConn == Init /\ [][NextConn]_vars

\* low-pass filter: coefficient and target frames, then ticks of loop()
NextFilter ==
  \/ \E f \in FilterFrames : now <= MaxStartFilter /\ OnWsData(f)
  \/ \E r \in IdleReadings : now < MaxTimeFilter /\ Loop(r, 0)

SpecFilter == Init /\ [][NextFilter]_vars

\* second field of servo and led frames
NextFields ==
  \/ \E f \in FieldFrames : OnWsData(f)
  \/ \E r \in IdleReadings : now < MaxTimeFields /\ Loop(r, 0)

SpecFields == Init /\ [][NextFields]_vars

\* command dispatch: clients join and send frames that match nothing
NextDrop ==
  \/ \E c \in ClientIds : OnWsConnect(c)
  \/ \E c \in clients, f \in DropFrames : OnWsData(f)
  \/ \E r \in IdleReadings : now < MaxTimeDrop /\ Loop(r, 0)

SpecDrop == Init /\ [][NextDrop]_vars

\* the poti branch of the handler and the deferred persist of loop() as two
\* tasks, over a time longer than the persist delay
NextPersist ==
  \/ \E f \in {KW_POTI_ON, KW_POTI_OFF} : PotiBegin(f)
  \/ PotiSetFlag
  \/ PotiSetPending
  \/ PotiSetAt
  \/ PersistTestPending
  \/ PersistTestDue
  \/ PersistClear
  \/ PersistPut
  \/ \E r \in IdleReadings, busy \in PersistBusy :
       now < MaxTimePersist /\ LoopAfterPersist(r, busy)

SpecPersist == Init /\ [][NextPersist]_vars

\* the sound branch of the handler and updateToneSequence() as two tasks
NextRace ==
  \/ \E f \in RaceFrames : SoundBegin(f)
  \/ SoundSetSeq
  \/ SoundSetPlay
  \/ SoundSetIdx
  \/ \E r \in IdleReadings : now < MaxTimeRace /\ LoopBeforeTone(r)
  \/ SeqGuard
  \/ SeqEnd
  \/ SeqStopMute
  \/ SeqStopPlay
  \/ SeqStopIdx
  \/ SeqSep1
  \/ SeqSep2
  \/ SeqSep3
  \/ SeqBadMute
  \/ SeqBadPlay
  \/ SeqFreq
  \/ SeqVol
  \/ SeqDur
  \/ SeqOutput
  \/ SeqSetNext
  \/ SeqSetIdx
  \/ \E r \in IdleReadings : LoopDelay(r, 0)

SpecRace == Init /\ [][NextRace]_vars

\* termination of playback: a sequence is started, by a frame or by the
\* switch, only while the sequencer is idle; loop() is called again and again
InitLive == InitWith({SEQ_SHORT, SEQ_TRUNC})

StartLive ==
  \E f \in LiveFrames : ~playSound /\ now <= MaxStartLive /\ OnWsData(f)

\* a pass of loop(); the switch is pressed only in a pass that starts playback
TickLive ==
  \E r \in IdleReadings \cup PressedReadings :
    /\ now < MaxTimeLive
    /\ r \in PressedReadings => (~playSound /\ now <= MaxStartLive)
    /\ Loop(r, 0)

NextLive == StartLive \/ TickLive

\* the Arduino core calls loop() for ever: as long as a pass is possible, a
\* pass is made and millis() moves on by its delay
LoopRuns == now < MaxTimeLive /\ now' = now + LOOP_DELAY

SpecLive == InitLive /\ [][NextLive]_vars /\ WF_now(LoopRuns)

\* cursor of the sequencer: sound frames at any time, the switch, passes of
\* loop()
NextCursor ==
  \/ \E f \in CursorFrames : OnWsData(f)
  \/ \E r \in ToneReadings : now < MaxTimeCursor /\ Loop(r, 0)

SpecCursor == InitLive /\ [][NextCursor]_vars

\* ------------------------------------------------------------------------
\* Properties
\* ------------------------------------------------------------------------
\* every variable of the program (the history variables left out)
progVars == << servoTargets, currentAngles, ledStates, filter, potiControl,
               persistPotiPending, persistPotiAt, prefPoti, soundSequence,
               playSound, toneIndex, nextToneTime, buzzerFreq, buzzerDuty,
               potiValues, touchValues, schalterValues, now, clients, outbox,
               lastSendTime >>

\* C1: every servo target lies in [0,180] in every reachable state; a servo
\* frame stores its angle clamped to [0,180] (45 stays 45, 200 becomes 180,
\* -10 becomes 0), and a tick in mapping mode stores only values in [0,180]
\* (the mapping of every reading 0..4095 is evaluated once, at startup).
C1_ServoTargetsInRange ==
  /\ \A i \in ServoIdx : servoTargets[i] \in 0 .. SERVO_MAX
  /\ last.op = "setup" =>
       \A v \in 0 .. ANALOG_MAX : MapPoti(v) \in 0 .. SERVO_MAX
  /\ last.op = "ws" =>
       /\ last.frame = F_SERVO_45 => servoTargets[0] = 45
       /\ last.frame = F_SERVO_200 => servoTargets[0] = SERVO_MAX
       /\ last.frame = F_SERVO_NEG => servoTargets[0] = 0

\* C1 witness: a tick in mapping mode has mapped readings at both ends of the
\* analog range
C1_Witness ==
  /\ last.op = "loop" /\ last.prePoti
  /\ potiValues[3] = ANALOG_MAX /\ servoTargets[3] = SERVO_MAX
  /\ potiValues[0] = 1 /\ servoTargets[0] = 0

\* C2: a filter frame whose value is outside [0,1] leaves the coefficient as
\* it was, and the coefficient is within [0,1] in every reachable state.
C2_FilterOutOfRangeIgnored ==
  /\ [](filter \in 0 .. FILTER_ONE)
  /\ [][(last'.op = "ws" /\ last'.frame \in {F_FILTER_ABOVE, F_FILTER_BELOW})
          => filter' = filter]_vars

\* C2 witness: "filter:1.5" arrived after the coefficient had been set to 0.5,
\* which is still the coefficient
C2_Witness ==
  last.op = "ws" /\ last.frame = F_FILTER_ABOVE /\ filter = 50

\* C3: "poti:on" while mapping mode is on, and "poti:off" while it is off,
\* change nothing: the flag, the pending-persist flag and the due time stay.
C3_RepeatedPotiNoOp ==
  [][(/\ last'.op = "ws"
      /\ \/ last'.frame = KW_POTI_ON /\ potiControl
         \/ last'.frame = KW_POTI_OFF /\ ~potiControl)
       => UNCHANGED progVars]_vars

\* C3 witness: "poti:on" arrived while mapping mode was on and a persist was
\* pending whose timer had been started at an earlier time
C3_Witness ==
  /\ last.op = "ws" /\ last.frame = KW_POTI_ON /\ last.prePoti
  /\ persistPotiPending
  /\ persistPotiAt < now + PERSIST_DELAY

\* C7: a frame longer than MAX_MSG bytes, or an empty frame, changes nothing.
C7_OversizedFrameDropped ==
  [][(last'.op = "ws" /\ (Len(last'.frame) = 0 \/ Len(last'.frame) > MAX_MSG))
       => UNCHANGED progVars]_vars

\* C7 witness: a 129-byte servo frame arrived after a filter and a sound
\* command had been applied, and servo 0 still has its startup target
C7_Witness ==
  /\ last.op = "ws" /\ last.frame = F_SERVO_OVER_LIMIT
  /\ Len(last.frame) = MAX_MSG + 1
  /\ servoTargets[0] = SERVO_INIT
  /\ filter = 50 /\ playSound

\* C8 (as claimed): a sound frame with a payload of 1..256 bytes is accepted
\* (sequence replaced by the payload, cursor at the start, playing), and one
\* with a longer payload leaves sequence, cursor and playing flag unchanged.
C8_SoundPayloadLimit ==
  [][(last'.op = "ws" /\ StrNCmpEq(last'.frame, KW_SOUND)) =>
       LET payload == Drop(last'.frame, Len(KW_SOUND)) IN
       /\ (Len(payload) >= 1 /\ Len(payload) <= MAX_SOUND)
            => /\ soundSequence' = payload
               /\ toneIndex' = 0
               /\ playSound'
       /\ Len(payload) > MAX_SOUND
            => UNCHANGED << soundSequence, toneIndex, playSound >>]_vars

\* the steps a sequence text writes, read independently of the sequencer:
\* the text is cut at every ";" and each piece at every ","
Positions(s, ch) == {i \in 1 .. Len(s) : s[i] = ch}

PosAt(s, ch, k) ==
  CHOOSE i \in Positions(s, ch) :
    Cardinality({j \in Positions(s, ch) : j <= i}) = k

Piece(s, ch, k) ==
  LET n == Cardinality(Positions(s, ch))
      from == IF k = 1 THEN 1 ELSE PosAt(s, ch, k - 1) + 1
      to == IF k <= n THEN PosAt(s, ch, k) - 1 ELSE Len(s)
  IN SubSeq(s, from, to)

IsNumber(t) == Len(t) > 0 /\ \A i \in 1 .. Len(t) : t[i] \in Digits

StepCount(seq) == Cardinality(Positions(seq, ";"))

\* a well-formed sequence: one or more "f,v,d;" with decimal f, v in 0..100, d
WellFormed(seq) ==
  /\ Len(seq) > 0 /\ seq[Len(seq)] = ";"
  /\ \A k \in 1 .. StepCount(seq) :
       LET c == Piece(seq, ";", k) IN
       /\ Cardinality(Positions(c, ",")) = 2
       /\ \A j \in 1 .. 3 : IsNumber(Piece(c, ",", j))
       /\ DigitsVal(Piece(c, ",", 2)) <= VOL_MAX

WrittenSteps(seq) ==
  [k \in 1 .. StepCount(seq) |->
     LET c == Piece(seq, ";", k) IN
     [f |-> DigitsVal(Piece(c, ",", 1)),
      v |-> DigitsVal(Piece(c, ",", 2)),
      d |-> DigitsVal(Piece(c, ",", 3))]]

C5_WellFormedSequencePlaysInOrder ==
  WellFormed(soundSequence) =>
    LET w == WrittenSteps(soundSequence)
        n == Len(activated)
    IN /\ n <= Len(w)
       /\ \A k \in 1 .. n :
            /\ activated[k].freq = w[k].f
            /\ activated[k].vol = w[k].v
            /\ activated[k].dur = w[k].d
            /\ w[k].f > 0 => activated[k].duty = (w[k].v * DUTY_MAX) \div VOL_MAX
            /\ k > 1 => activated[k].at >= activated[k - 1].at + w[k - 1].d
       /\ (playSound /\ n >= 1 /\ w[n].f > 0)
            => /\ buzzerFreq = w[n].f
               /\ buzzerDuty = (w[n].v * DUTY_MAX) \div VOL_MAX
       /\ (~playSound /\ n >= 1)
            => /\ n = Len(w)
               /\ buzzerDuty = 0
               /\ now >= activated[n].at + w[n].d

\* C5 witness: "1000,80,20;800,60,30;" has been played to its end
C5_Witness ==
  /\ soundSequence = Drop(F_SOUND_TWO, Len(KW_SOUND))
  /\ ~playSound /\ Len(activated) = 2 /\ buzzerDuty = 0

\* C6: a step with frequency 0 mutes the output and keeps the sequencer
\* playing for its duration: while the duration of the latest step runs the
\* sequencer plays muted, and neither the next step nor the return to idle
\* comes before the duration has passed.
C6_SilentStepKeepsTiming ==
  LET n == Len(activated) IN
  /\ (n >= 1 /\ activated[n].freq = 0 /\ now < activated[n].at + activated[n].dur)
       => playSound /\ buzzerDuty = 0 /\ toneIndex = activated[n].next
  /\ \A k \in 2 .. n :
       activated[k - 1].freq = 0
         => activated[k].at >= activated[k - 1].at + activated[k - 1].dur
  /\ (n >= 1 /\ activated[n].freq = 0 /\ ~playSound)
       => now >= activated[n].at + activated[n].dur

\* C6 witness: the silent first step of "0,50,20;500,50,10;" was followed by
\* its second step
C6_Witness ==
  /\ Len(activated) = 2
  /\ activated[1].freq = 0 /\ activated[1].vol > 0 /\ activated[2].freq > 0

\* C6 witness of the muted interval: the silent step is running
C6_SilentStepRunning ==
  /\ Len(activated) = 1 /\ activated[1].freq = 0 /\ activated[1].vol > 0
  /\ now < activated[1].at + activated[1].dur
  /\ playSound /\ buzzerDuty = 0

\* C9 (as claimed): the duty written to the buzzer is the scaling of a volume
\* within [0,100], so it lies in [0,255].
C9_DutyWithinFullScale == buzzerDuty \in 0 .. DUTY_MAX

\* C10 (as claimed): during one continuous assertion of the switch the
\* sequence is started at most once.
C10_OneTriggerPerAssertion == triggers <= 1

\* the servo channel a message "servo:<idx>:<angle>" is about (-1 for any
\* other message)
ServoMsgIdx(m) ==
  IF StrNCmpEq(m, KW_SERVO) /\ ScanIntColonInt(Drop(m, Len(KW_SERVO))).n = 2
  THEN ScanIntColonInt(Drop(m, Len(KW_SERVO))).idx
  ELSE -1

\* C11 (as claimed): once the handler has processed a frame of the only
\* connected client, that client has been sent a "servo:<idx>:<angle>" message
\* for every servo channel, a "poti:on" or "poti:off" message and a
\* "filter:<value>" message.
C11_StateReplayedOnJoin ==
  \A c \in ClientIds :
    (clients = {c} /\ last.op = "ws") =>
      /\ \A i \in ServoIdx :
           \E k \in 1 .. Len(outbox[c]) : ServoMsgIdx(outbox[c][k]) = i
      /\ \E k \in 1 .. Len(outbox[c]) : outbox[c][k] \in {KW_POTI_ON, KW_POTI_OFF}
      /\ \E k \in 1 .. Len(outbox[c]) : StrNCmpEq(outbox[c][k], KW_FILTER)

\* C12 (as claimed): the network callback never writes the mapping flag to
\* the preferences, and loop() writes it no earlier than the persist delay
\* (1000 ms) after the latest change of the flag.
C12_PersistAfterQuietPeriod ==
  [][/\ (last'.op \in {"ws", "ws_step"} => (prefPoti' = prefPoti /\ ~last'.wrote))
     /\ (last'.wrote =>
           (flagChangedAt >= 0 /\ now >= flagChangedAt + PERSIST_DELAY))]_vars

\* C13 (as claimed): with the handler and loop() as two tasks, every step the
\* sequencer activates is computed from one text, the sequence stored when the
\* cursor is written, at the cursor that belongs to it (0 for the first step
\* since the sequence was stored, the end of the step before for the others);
\* and once the handler has returned and no pass of the sequencer is under
\* way, a sequence of which no step has been activated yet is set to play
\* from index 0.
C13_SoundCommandAtomicToTick ==
  /\ \A k \in 1 .. Len(activated) :
       /\ activated[k].texts = {soundSequence}
       /\ activated[k].idx = IF k = 1 THEN 0 ELSE activated[k - 1].next
  /\ (/\ wsTask.pc = "idle" /\ wsTask.accepted
      /\ loopTask.pc \in {"idle", "seq_guard"}
      /\ activated = << >>)
       => (playSound /\ toneIndex = 0)

\* C14: whatever the text of the sequence, a playback that has been started
\* and is not started again comes back to idle with the output muted while
\* loop() keeps running; every step advances the cursor within the text, and
\* the positions the sequencer searches from and cuts at lie within the text.
C14_PlaybackTerminates ==
  /\ [](playSound => <>(~playSound /\ buzzerDuty = 0))
  /\ [](toneIndex >= 0 /\ toneIndex <= Len(soundSequence))
  /\ [](\A k \in 1 .. Len(activated) :
          LET a == activated[k]
              p == ParseStep(a.seq, a.idx)
          IN /\ a.idx >= 0 /\ a.idx < Len(a.seq)
             /\ a.idx <= p.sep1 /\ p.sep1 < p.sep2 /\ p.sep2 < Len(a.seq)
             /\ p.sep3 = -1 \/ (p.sep2 < p.sep3 /\ p.sep3 < Len(a.seq))
             /\ a.next > a.idx /\ a.next <= Len(a.seq))

\* C14 witness: "500,50", a step without its second comma, was started and
\* the pass of loop() that came to it has stopped the playback, muted
C14_Witness ==
  /\ soundSequence = Drop(F_SOUND_ONESEP, Len(KW_SOUND))
  /\ last.op = "loop" /\ last.prePlaying
  /\ ~playSound /\ buzzerDuty = 0 /\ activated = << >>

\* C15: a pass of loop() made while the mapping flag is false changes no servo
\* target and no LED state and does not start the sequence from the switch.
C15_NoMappingWhileFlagOff ==
  [][(last'.op = "loop" /\ ~potiControl) =>
       /\ servoTargets' = servoTargets
       /\ ledStates' = ledStates
       /\ ~last'.trig
       /\ playSound' => playSound
       /\ toneIndex' = toneIndex]_vars

\* C15 witness: after the flag was switched off by a command and servo 0 set
\* to 45 by another, a pass read poti 0 at 1, touch 2 above the threshold and
\* the switch pressed, and servo 0 is still at 45, nothing is playing
C15_Witness ==
  /\ last.op = "loop" /\ ~last.prePoti /\ flagChangedAt >= 0
  /\ potiValues[0] = 1 /\ touchValues[2] > TOUCH_THRESHOLD
  /\ schalterValues[0] = LOW
  /\ servoTargets[0] = 45 /\ ~playSound

\* C16: after a pass of loop() in mapping mode the target of each servo wired
\* to a poti is 0 for the reading 0 and 180 for the reading 4095, and lies
\* within one degree of the straight line between them; over the whole range
\* of readings the mapped angle never decreases as the reading grows.
C16_PotiMappingLinear ==
  /\ (last.op = "loop" /\ last.prePoti) =>
       \A i \in 0 .. (NUM_POTIS - 1) :
         /\ potiValues[i] = 0 => servoTargets[i] = 0
         /\ potiValues[i] = ANALOG_MAX => servoTargets[i] = SERVO_MAX
         /\ ANALOG_MAX * servoTargets[i] - SERVO_MAX * potiValues[i] < ANALOG_MAX
         /\ SERVO_MAX * potiValues[i] - ANALOG_MAX * servoTargets[i] < ANALOG_MAX
  /\ last.op = "setup" =>
       \A v \in 0 .. (ANALOG_MAX - 1) : MapPoti(v) <= MapPoti(v + 1)

\* C16 witness: a pass in mapping mode read the potis at 1, 2047, 4094 and
\* 4095 and set the four targets to 0, 89, 179 and 180
C16_Witness ==
  /\ last.op = "loop" /\ last.prePoti
  /\ potiValues[1] = 2047 /\ servoTargets[1] = 89
  /\ potiValues[2] = 4094 /\ servoTargets[2] = 179
  /\ potiValues[3] = ANALOG_MAX /\ servoTargets[3] = SERVO_MAX

\* C17: a pass of loop() leaves the current angle of every servo between its
\* previous value and the target (no overshoot, no step away from the
\* target) for every accepted coefficient; with the coefficient 0 it lands on
\* the target and with the coefficient 1 it stays where it was.
C17_FilterMonotoneNoOvershoot ==
  [][last'.op = "loop" =>
       \A i \in ServoIdx :
         LET T == servoTargets'[i] * ANGLE_SCALE
             c == currentAngles[i]
             n == currentAngles'[i]
         IN  /\ filter \in 0 .. FILTER_ONE
             /\ c <= T => (c <= n /\ n <= T)
             /\ c >= T => (T <= n /\ n <= c)
             /\ filter = 0 => n = T
             /\ filter = FILTER_ONE => n = c]_vars

\* C17 witness: with the coefficient 0.5 a pass has moved servo 0 part of the
\* way down to its target 45 and servo 1 part of the way up to its target 180
C17_Witness ==
  /\ last.op = "loop" /\ filter = 50
  /\ servoTargets[0] = 45
  /\ currentAngles[0] > 45 * ANGLE_SCALE /\ currentAngles[0] < SERVO_INIT * ANGLE_SCALE
  /\ servoTargets[1] = SERVO_MAX
  /\ currentAngles[1] > SERVO_INIT * ANGLE_SCALE
  /\ currentAngles[1] < SERVO_MAX * ANGLE_SCALE

\* the end of the step that starts at idx: its ';' or the end of the text
StepEnd(seq, idx) ==
  LET semi == IndexOf(seq, ";", idx) IN IF semi = -1 THEN Len(seq) ELSE semi

\* the step that starts at idx does not hold two commas
MalformedStep(seq, idx) ==
  Cardinality({ j \in idx .. (StepEnd(seq, idx) - 1) : seq[j + 1] = "," }) < 2

\* C18: a pass of loop() in which the sequencer advances onto a malformed
\* step mutes the output, stops the playback and activates nothing; no step
\* ever activated began at a malformed step.
C18_MalformedStepStopsAtOnce ==
  [][/\ (/\ last'.op = "loop" /\ ~last'.trig
          /\ playSound /\ ~MillisBefore(now, nextToneTime)
          /\ toneIndex < Len(soundSequence)
          /\ MalformedStep(soundSequence, toneIndex))
        => (~playSound' /\ buzzerDuty' = 0 /\ activated' = activated)
     /\ \A k \in 1 .. Len(activated') :
          ~MalformedStep(activated'[k].seq, activated'[k].idx)]_vars

\* C19: a servo or led frame for channel 0 whose second field is missing or
\* is not a number leaves the target of servo 0, or the state of LED 0, as
\* it was.
C19_MissingValueKeepsChannel ==
  [][/\ (last'.op = "ws" /\ last'.frame \in NoValueServoFrames)
          => servoTargets'[0] = servoTargets[0]
     /\ (last'.op = "ws" /\ last'.frame \in NoValueLedFrames)
          => ledStates'[0] = ledStates[0]]_vars

\* C20: a frame of legal size with an unknown keyword, a keyword in another
\* case, "poti:" followed by anything but "on" or "off", or a servo or led
\* index below 0 or at or above the channel count changes no variable of the
\* program and puts no message into any client's queue.
C20_UnmatchedFrameDropped ==
  [][(last'.op = "ws" /\ last'.frame \in DroppedFrames)
       => (/\ Len(last'.frame) > 0 /\ Len(last'.frame) <= MAX_MSG
           /\ progVars' = progVars)]_vars

\* C20 witness: with the flag off, servo 0 at 45 and the broadcast in the
\* queue of client 1, the frame "poti:on " has been handled
C20_Witness ==
  /\ last.op = "ws" /\ last.frame = F_POTI_ON_SPACE
  /\ ~potiControl /\ servoTargets[0] = 45
  /\ 1 \in clients /\ Len(outbox[1]) > 0

\* the sequences the tone runs are set up with: the fallback of setup() and a
\* stored one
BootSequences == { DEFAULT_SEQUENCE, SEQ_SHORT }

\* C21 (as claimed): when the switch has started the playback, the sequence
\* that plays is the one the device was set up with, whatever sound frames
\* were accepted before, and so is the text of every step activated since.
C21_SwitchPlaysDefaultSequence ==
  (last.op = "loop" /\ last.trig)
    => /\ soundSequence \in BootSequences
       /\ \A k \in 1 .. Len(activated) : activated[k].seq \in BootSequences

\* C22 (as claimed): when a sound frame has been accepted during playback,
\* before the due time of the step it interrupts, the next pass of loop()
\* activates the first step of the new sequence and ends the interrupted
\* tone: it does not wait for that due time.
C22_AcceptResetsDueTime ==
  [][(/\ last.op = "ws" /\ last.prePlaying
      /\ StrNCmpEq(last.frame, KW_SOUND) /\ Len(last.frame) <= MAX_MSG
      /\ soundSequence = Drop(last.frame, Len(KW_SOUND))
      /\ MillisBefore(now, nextToneTime)
      /\ last'.op = "loop")
       => /\ Len(activated') = 1
          /\ activated'[1].seq = soundSequence
          /\ activated'[1].idx = 0
          /\ buzzerDuty' = activated'[1].duty]_vars

\* C23: before and after every handled frame and every pass of loop() the
\* cursor lies between 0 and the length of the sequence, and a pass that
\* activates a step leaves the cursor beyond the index the step was read at,
\* which is the cursor the sequencer started from (0 after a switch trigger).
C23_CursorWithinSequence ==
  [][/\ toneIndex \in 0 .. Len(soundSequence)
     /\ toneIndex' \in 0 .. Len(soundSequence')
     /\ (last'.op = "loop" /\ activated' # activated /\ activated' # << >>)
          => LET a == activated'[Len(activated')] IN
             /\ a.idx = IF last'.trig THEN 0 ELSE toneIndex
             /\ a.next = toneIndex'
             /\ toneIndex' > a.idx]_vars

\* C23 witness: "500,50,10;700" has played its first step and stopped at the
\* second, which has no comma; the cursor rests at 10 of 13
C23_Witness ==
  /\ soundSequence = Drop(F_SOUND_THEN_BAD, Len(KW_SOUND))
  /\ last.op = "loop" /\ last.prePlaying
  /\ ~playSound /\ toneIndex = 10 /\ Len(activated) = 1

\* C24: with the statements of the poti handler and of the deferred persist
\* interleaved in every order, whenever no persist is pending, the handler is
\* not inside the poti branch and loop() is not inside the persist block, the
\* flag in the preferences equals the flag in memory.
C24_StoredFlagMatchesAtRest ==
  (/\ ~persistPotiPending
   /\ wsTask.pc = "idle"
   /\ loopTask.pc \in {"idle", "sensors"})
    => prefPoti = potiControl

\* C24 witness: loop() tested the pending flag while the handler was between
\* its writes and has written the changed flag before the persist delay was
\* over; both are at rest again, nothing is pending
C24_Witness ==
  /\ last.op = "loop_step" /\ last.wrote
  /\ flagChangedAt >= 0 /\ now < flagChangedAt + PERSIST_DELAY
  /\ ~persistPotiPending /\ wsTask.pc = "idle" /\ loopTask.pc = "sensors"
  /\ prefPoti = potiControl

====
